---- MODULE Spec2Model ----
(***************************************************************************)
(* A model of the terminal Wordle game of src/main.rs: the Wordle state    *)
(* (answer, curr, guesses) with its input/erase/guess/won methods, the     *)
(* two-pass colouring that render_wordle computes for every history row,   *)
(* and the event loop of main that drives them.                            *)
(*                                                                         *)
(* Characters are ASCII codes, strings are sequences of codes, Option is   *)
(* a sequence of length 0 (None) or 1 (Some).                              *)
(***************************************************************************)
EXTENDS Integers, Sequences, FiniteSets

VARIABLES answer, curr, guesses, pc, ev, screen, won_result, raw_mode, alt_screen,
          printed, result, term

vars ==
    <<answer, curr, guesses, pc, ev, screen, won_result, raw_mode, alt_screen,
      printed, result, term>>

(***************************************************************************)
(* Bounds of the model and constants of the program.                       *)
(***************************************************************************)
\* Number of distinct letters ('a', 'b', ...) the keyboard can deliver.
NumLetters == 2

\* Length of a word: the literal 5 of input(), guess() and render_wordle.
WordLen == 5

\* Number of guesses after which the game is lost: the literal 6 of won().
MaxGuesses == 6

\* Width and height of the grid: (width, height) = (21, 13) in render_wordle.
GridWidth == 21

GridHeight == 13

\* Number of values of a u16, the type of terminal sizes and cursor positions.
U16 == 65536

Ascii ==
    [a |-> 97, b |-> 98, d |-> 100, e |-> 101, l |-> 108, m |-> 109,
     o |-> 111, p |-> 112, r |-> 114, s |-> 115, y |-> 121,
     A |-> 65, Z |-> 90, z |-> 122, one |-> 49, eacute |-> 233]

Alphabet == {Ascii.a + i : i \in 0..(NumLetters - 1)}

None == <<>>

Some(v) == <<v>>

\* char::is_ascii_alphabetic
is_ascii_alphabetic(c) ==
    \/ (c >= Ascii.A /\ c <= Ascii.Z)
    \/ (c >= Ascii.a /\ c <= Ascii.z)

\* char::to_ascii_lowercase
to_ascii_lowercase(c) ==
    IF c >= Ascii.A /\ c <= Ascii.Z THEN c + (Ascii.a - Ascii.A) ELSE c

\* char::to_ascii_uppercase
to_ascii_uppercase(c) ==
    IF c >= Ascii.a /\ c <= Ascii.z THEN c - (Ascii.a - Ascii.A) ELSE c

\* The characters a key event can carry: the letters in both cases, a digit
\* and a letter outside ASCII.
Keys ==
    Alphabet \cup {to_ascii_uppercase(c) : c \in Alphabet} \cup {Ascii.one, Ascii.eacute}

Words == [1..WordLen -> Alphabet]

\* The guess dictionary (the lines of the file "guesses").
GUESSES ==
    { <<Ascii.a, Ascii.b, Ascii.a, Ascii.b, Ascii.a>>,
      <<Ascii.a, Ascii.a, Ascii.b, Ascii.b, Ascii.b>> }

\* The answer corpus (the lines of the file "answers"); nothing in the code
\* relates it to GUESSES, so one answer is a dictionary word and one is not.
ANSWERS ==
    { <<Ascii.a, Ascii.b, Ascii.a, Ascii.b, Ascii.a>>,
      <<Ascii.b, Ascii.b, Ascii.b, Ascii.a, Ascii.b>> }

SPEED == <<Ascii.s, Ascii.p, Ascii.e, Ascii.e, Ascii.d>>
ERASE == <<Ascii.e, Ascii.r, Ascii.a, Ascii.s, Ascii.e>>
ALLOY == <<Ascii.a, Ascii.l, Ascii.l, Ascii.o, Ascii.y>>
LLAMA == <<Ascii.l, Ascii.l, Ascii.a, Ascii.m, Ascii.a>>

(***************************************************************************)
(* Vec and iterator helpers.                                               *)
(***************************************************************************)
\* Iterator::position: the first index holding c, as an Option.
Position(s, c) ==
    IF \E i \in 1..Len(s) : s[i] = c
    THEN Some(CHOOSE i \in 1..Len(s) : s[i] = c /\ \A j \in 1..(i - 1) : s[j] # c)
    ELSE None

\* Vec::remove(i): drops the element at index i and shifts the rest left.
Remove(s, i) == [j \in 1..(Len(s) - 1) |-> IF j < i THEN s[j] ELSE s[j + 1]]

\* Vec::last
Last(s) == IF Len(s) = 0 THEN None ELSE Some(s[Len(s)])

\* String::pop: removes the last character if there is one.
Pop(s) == IF Len(s) = 0 THEN s ELSE SubSeq(s, 1, Len(s) - 1)

(***************************************************************************)
(* The colouring of one history row (render_wordle, lines 109-136).        *)
(***************************************************************************)
\* State at the start of a row: all DarkGrey, a fresh copy of the answer.
RowInit(ans) ==
    [colors |-> [i \in 1..WordLen |-> "DarkGrey"], answer_chars |-> ans, panicked |-> FALSE]

\* FirstPassStep that forgets to take the matched letter out of answer_chars.
FirstPassStepNoRemove(st, idx, guess_chars, ans) ==
    IF idx <= Len(guess_chars) /\ idx <= Len(ans) /\ guess_chars[idx] = ans[idx]
    THEN [st EXCEPT !.colors[idx] = "Green"]
    ELSE st

\* FirstPassStep that takes every occurrence of the matched letter out of
\* answer_chars instead of one.
FirstPassStepRemoveAll(st, idx, guess_chars, ans) ==
    IF st.panicked THEN st
    ELSE IF idx > Len(guess_chars) THEN [st EXCEPT !.panicked = TRUE]
    ELSE IF idx <= Len(ans) /\ guess_chars[idx] = ans[idx]
    THEN IF Position(st.answer_chars, guess_chars[idx]) = None
         THEN [st EXCEPT !.colors[idx] = "Green", !.panicked = TRUE]
         ELSE [st EXCEPT !.colors[idx] = "Green",
                         !.answer_chars = SelectSeq(st.answer_chars,
                                                    LAMBDA ch : ch # guess_chars[idx])]
    ELSE st

\* One iteration of the first loop (lines 115-124) at index idx.
FirstPassStep(st, idx, guess_chars, ans) ==
    IF st.panicked THEN st
    ELSE IF idx > Len(guess_chars) THEN [st EXCEPT !.panicked = TRUE]
    ELSE IF idx <= Len(ans) /\ guess_chars[idx] = ans[idx]
    THEN LET pos == Position(st.answer_chars, guess_chars[idx])
         IN  IF pos = None
             THEN [st EXCEPT !.colors[idx] = "Green", !.panicked = TRUE]
             ELSE [st EXCEPT !.colors[idx] = "Green",
                             !.answer_chars = Remove(st.answer_chars, pos[1])]
    ELSE st

\* SecondPassStep that forgets to take the found letter out of answer_chars.
SecondPassStepNoRemove(st, idx, guess_chars) ==
    IF st.colors[idx] = "Green" THEN st
    ELSE IF Position(st.answer_chars, guess_chars[idx]) = None THEN st
    ELSE [st EXCEPT !.colors[idx] = "Yellow"]

\* SecondPassStep that looks the letter up at its own index only.
SecondPassStepSameIndex(st, idx, guess_chars) ==
    IF st.colors[idx] = "Green" THEN st
    ELSE IF idx <= Len(st.answer_chars) /\ st.answer_chars[idx] = guess_chars[idx]
    THEN [st EXCEPT !.colors[idx] = "Yellow"]
    ELSE st

\* One iteration of the second loop (lines 128-135) at index idx.
SecondPassStep(st, idx, guess_chars) ==
    IF st.panicked \/ idx > WordLen THEN [st EXCEPT !.panicked = TRUE]
    ELSE IF st.colors[idx] = "Green" THEN st
    ELSE LET pos == Position(st.answer_chars, guess_chars[idx])
         IN  IF pos = None THEN st
             ELSE [st EXCEPT !.colors[idx] = "Yellow",
                             !.answer_chars = Remove(st.answer_chars, pos[1])]

RECURSIVE FirstPass(_, _, _, _)
FirstPass(st, idx, guess_chars, ans) ==
    IF idx > WordLen THEN st
    ELSE FirstPass(FirstPassStep(st, idx, guess_chars, ans), idx + 1, guess_chars, ans)

RECURSIVE SecondPass(_, _, _)
SecondPass(st, idx, guess_chars) ==
    IF idx > Len(guess_chars) \/ st.panicked THEN st
    ELSE SecondPass(SecondPassStep(st, idx, guess_chars), idx + 1, guess_chars)

\* The colours of the row of guess g against the answer ans.
RowColors(g, ans) == SecondPass(FirstPass(RowInit(ans), 1, g, ans), 1, g)

(***************************************************************************)
(* render_wordle: what one call draws (lines 81-163).                      *)
(***************************************************************************)
\* RenderWordle that also draws the answer, in the row below the history.
RenderWordleShowsAnswer(w) ==
    LET n == Len(w.guesses)
        shown == Append(w.guesses, w.answer)
    IN  [panicked |-> FALSE,
         rows |-> [i \in 1..(n + 1) |->
                      [chars |-> [k \in 1..Len(shown[i]) |-> to_ascii_uppercase(shown[i][k])],
                       colors |-> RowColors(shown[i], w.answer).colors]],
         input |-> [k \in 1..Len(w.curr) |-> to_ascii_uppercase(w.curr[k])]]

\* The drawing of the Wordle w: one row per history entry, with its letters
\* in upper case and their colours, and the current input in upper case.
RenderWordle(w) ==
    LET n == Len(w.guesses)
        colored == [i \in 1..n |-> RowColors(w.guesses[i], w.answer)]
    IN  [panicked |-> \E i \in 1..n : colored[i].panicked,
         rows |-> [i \in 1..n |->
                      [chars |-> [k \in 1..Len(w.guesses[i]) |->
                                     to_ascii_uppercase(w.guesses[i][k])],
                       colors |-> colored[i].colors]],
         input |-> [k \in 1..Len(w.curr) |-> to_ascii_uppercase(w.curr[k])]]

\* The grid origin of line 84 for the terminal size (cols, rows): the u16
\* subtractions underflow when the terminal is smaller than the grid, and a
\* build without overflow checks goes on with the wrapped values.
Geometry(size) ==
    [underflow |-> size[1] < GridWidth \/ size[2] < GridHeight,
     x |-> ((size[1] + U16 - GridWidth) % U16) \div 2,
     y |-> ((size[2] + U16 - GridHeight) % U16) \div 2]

\* The cursor positions of the MoveTo calls of lines 104, 143 and 158 for the
\* origin (x, y), computed without wrapping.
Cursors(x, y, w) ==
    {<<x, y + k>> : k \in 0..(GridHeight - 1)}
        \cup {<<4 * (idx - 1) + x + 2, y + 1 + 2 * (i - 1)>> :
                 idx \in 1..WordLen, i \in 1..Len(w.guesses)}
        \cup {<<x + 2 + 4 * (k - 1), y + 2 * Len(w.guesses) + 1>> : k \in 1..Len(w.curr)}

(***************************************************************************)
(* struct Wordle and its methods (lines 165-211).                          *)
(***************************************************************************)
\* The Wordle value held by main.
W == [answer |-> answer, curr |-> curr, guesses |-> guesses]

\* input that pushes the character whatever the length of curr.
inputNoCap(w, c) == [w EXCEPT !.curr = Append(w.curr, to_ascii_lowercase(c))]

\* input that pushes the character as it was typed.
inputNoLower(w, c) ==
    IF Len(w.curr) < WordLen
    THEN [w EXCEPT !.curr = Append(w.curr, c)]
    ELSE w

\* Wordle::input
input(w, c) ==
    IF Len(w.curr) < WordLen
    THEN [w EXCEPT !.curr = Append(w.curr, to_ascii_lowercase(c))]
    ELSE w

\* erase that empties curr.
eraseClear(w) == [w EXCEPT !.curr = <<>>]

\* Wordle::erase
erase(w) == [w EXCEPT !.curr = Pop(w.curr)]

\* guess that does not look the word up in the dictionary.
guessNoDict(w) ==
    IF Len(w.curr) = WordLen
    THEN [w EXCEPT !.guesses = Append(w.guesses, w.curr), !.curr = <<>>]
    ELSE w

\* guess that puts the new word in front of the history.
guessPrepend(w) ==
    IF Len(w.curr) = WordLen /\ w.curr \in GUESSES
    THEN [w EXCEPT !.guesses = <<w.curr>> \o w.guesses, !.curr = <<>>]
    ELSE w

\* Wordle::guess
guess(w) ==
    IF Len(w.curr) = WordLen /\ w.curr \in GUESSES
    THEN [w EXCEPT !.guesses = Append(w.guesses, w.curr), !.curr = <<>>]
    ELSE w

\* won that tests the length before the last entry.
wonLengthFirst(w) ==
    IF Len(w.guesses) = MaxGuesses THEN Some(FALSE)
    ELSE IF Last(w.guesses) = Some(w.answer) THEN Some(TRUE)
    ELSE None

\* won that reports the loss one guess late.
wonOffByOne(w) ==
    IF Last(w.guesses) = Some(w.answer) THEN Some(TRUE)
    ELSE IF Len(w.guesses) = MaxGuesses + 1 THEN Some(FALSE)
    ELSE None

\* Wordle::won
won(w) ==
    IF Last(w.guesses) = Some(w.answer) THEN Some(TRUE)
    ELSE IF Len(w.guesses) = MaxGuesses THEN Some(FALSE)
    ELSE None

(***************************************************************************)
(* main (lines 16-79), one action per step.                                *)
(***************************************************************************)
NoEvent == [kind |-> "None", c |-> 0]

EmptyScreen == [rows |-> <<>>, input |-> <<>>, origin |-> <<0, 0>>]

\* A terminal size that holds the grid.
DefaultSize == <<80, 24>>

Init ==
    /\ answer = <<>>
    /\ curr = <<>>
    /\ guesses = <<>>
    /\ pc = "enable_raw"
    /\ ev = NoEvent
    /\ screen = EmptyScreen
    /\ won_result = None
    /\ raw_mode = FALSE
    /\ alt_screen = FALSE
    /\ printed = "nothing"
    /\ result = "running"
    /\ term = DefaultSize

\* A `?` that returns the I/O error from main (or from render_wordle, and then
\* from main): nothing else runs.
ReturnErr ==
    /\ pc' = "done"
    /\ result' = "err"

\* The panic hook (lines 17-21) followed by the end of the process.
Panic ==
    /\ raw_mode' = FALSE
    /\ alt_screen' = FALSE
    /\ pc' = "done"
    /\ result' = "panic"

\* Line 25, terminal::enable_raw_mode()? succeeds.
EnableRawOk ==
    /\ pc = "enable_raw"
    /\ raw_mode' = TRUE
    /\ pc' = "enter_alt"
    /\ UNCHANGED <<term, answer, curr, guesses, ev, screen, won_result, alt_screen, printed, result>>

\* Line 25, terminal::enable_raw_mode()? fails.
EnableRawErr ==
    /\ pc = "enable_raw"
    /\ ReturnErr
    /\ UNCHANGED <<term, answer, curr, guesses, ev, screen, won_result, raw_mode, alt_screen, printed>>

\* Line 26, execute!(stdout, EnterAlternateScreen, Hide)? succeeds.
EnterAltOk ==
    /\ pc = "enter_alt"
    /\ alt_screen' = TRUE
    /\ pc' = "new"
    /\ UNCHANGED <<term, answer, curr, guesses, ev, screen, won_result, raw_mode, printed, result>>

\* Line 26, execute!(stdout, EnterAlternateScreen, Hide)? fails.
EnterAltErr ==
    /\ pc = "enter_alt"
    /\ ReturnErr
    /\ UNCHANGED <<term, answer, curr, guesses, ev, screen, won_result, raw_mode, alt_screen, printed>>

\* Line 28, Wordle::new(): a random element of ANSWERS, empty curr and guesses.
New ==
    /\ pc = "new"
    /\ \E a \in ANSWERS : answer' = a
    /\ curr' = <<>>
    /\ guesses' = <<>>
    /\ pc' = "render"
    /\ UNCHANGED <<term, ev, screen, won_result, raw_mode, alt_screen, printed, result>>

\* Line 31, render_wordle(&wordle)? draws, or panics: on an underflow of the
\* origin in a build with overflow checks, or while colouring a row.
RenderOk ==
    /\ pc = "render"
    /\ \E r \in {RenderWordle(W)}, g \in {Geometry(term)}, overflow_checks \in BOOLEAN :
           IF \/ r.panicked
              \/ /\ overflow_checks
                 /\ \/ g.underflow
                    \/ \E p \in Cursors(g.x, g.y, W) : p[1] >= U16 \/ p[2] >= U16
           THEN /\ Panic
                /\ UNCHANGED <<screen>>
           ELSE /\ screen' = [rows |-> r.rows, input |-> r.input, origin |-> <<g.x, g.y>>]
                /\ pc' = "won"
                /\ UNCHANGED <<raw_mode, alt_screen, result>>
    /\ ev' = NoEvent
    /\ UNCHANGED <<term, answer, curr, guesses, won_result, printed>>

\* Line 31, render_wordle(&wordle)? returns an I/O error.
RenderErr ==
    /\ pc = "render"
    /\ ReturnErr
    /\ ev' = NoEvent
    /\ UNCHANGED <<term, answer, curr, guesses, screen, won_result, raw_mode, alt_screen, printed>>

\* Lines 33-36: the outcome is decided, the loop breaks with it.
WonBreak ==
    /\ pc = "won"
    /\ won(W) # None
    /\ won_result' = won(W)
    /\ pc' = "disable_raw"
    /\ UNCHANGED <<term, answer, curr, guesses, ev, screen, raw_mode, alt_screen, printed, result>>

\* The loop going on to read an event whatever won() returned.
WonNoneNoCheck ==
    /\ pc = "won"
    /\ pc' = "read"
    /\ UNCHANGED <<term, answer, curr, guesses, ev, screen, won_result, raw_mode, alt_screen, printed, result>>

\* Lines 33-36: the outcome is not decided, the loop goes on to read an event.
WonNone ==
    /\ pc = "won"
    /\ won(W) = None
    /\ pc' = "read"
    /\ UNCHANGED <<term, answer, curr, guesses, ev, screen, won_result, raw_mode, alt_screen, printed, result>>

\* Line 38, event::read()? returns an I/O error.
ReadErr ==
    /\ pc = "read"
    /\ ReturnErr
    /\ UNCHANGED <<term, answer, curr, guesses, ev, screen, won_result, raw_mode, alt_screen, printed>>

\* Esc that goes round the loop again instead of breaking.
ReadEscNoBreak ==
    /\ pc = "read"
    /\ ev' = [kind |-> "Esc", c |-> 0]
    /\ pc' = "render"
    /\ UNCHANGED <<term, answer, curr, guesses, screen, won_result, raw_mode, alt_screen, printed, result>>

\* Lines 39-41: Esc breaks the loop with false.
ReadEsc ==
    /\ pc = "read"
    /\ ev' = [kind |-> "Esc", c |-> 0]
    /\ won_result' = Some(FALSE)
    /\ pc' = "disable_raw"
    /\ UNCHANGED <<term, answer, curr, guesses, screen, raw_mode, alt_screen, printed, result>>

\* Lines 43-48: a character key that is an ASCII letter calls input.
ReadChar ==
    /\ pc = "read"
    /\ \E c \in Keys :
          /\ is_ascii_alphabetic(c)
          /\ ev' = [kind |-> "Char", c |-> c]
          /\ curr' = input(W, c).curr
          /\ guesses' = input(W, c).guesses
          /\ answer' = input(W, c).answer
    /\ pc' = "render"
    /\ UNCHANGED <<term, screen, won_result, raw_mode, alt_screen, printed, result>>

\* Lines 50-55: Backspace calls erase.
ReadBackspace ==
    /\ pc = "read"
    /\ ev' = [kind |-> "Backspace", c |-> 0]
    /\ curr' = erase(W).curr
    /\ guesses' = erase(W).guesses
    /\ answer' = erase(W).answer
    /\ pc' = "render"
    /\ UNCHANGED <<term, screen, won_result, raw_mode, alt_screen, printed, result>>

\* Enter that goes straight to the test of won(), without a render first.
ReadEnterNoRender ==
    /\ pc = "read"
    /\ ev' = [kind |-> "Enter", c |-> 0]
    /\ curr' = guess(W).curr
    /\ guesses' = guess(W).guesses
    /\ answer' = guess(W).answer
    /\ pc' = "won"
    /\ UNCHANGED <<term, screen, won_result, raw_mode, alt_screen, printed, result>>

\* Lines 57-62: Enter calls guess.
ReadEnter ==
    /\ pc = "read"
    /\ ev' = [kind |-> "Enter", c |-> 0]
    /\ curr' = guess(W).curr
    /\ guesses' = guess(W).guesses
    /\ answer' = guess(W).answer
    /\ pc' = "render"
    /\ UNCHANGED <<term, screen, won_result, raw_mode, alt_screen, printed, result>>

\* Line 64: any other event (a character that is no ASCII letter, another
\* key, a resize) is ignored.
ReadOther ==
    /\ pc = "read"
    /\ \/ \E c \in Keys : ~is_ascii_alphabetic(c) /\ ev' = [kind |-> "Char", c |-> c]
       \/ ev' = [kind |-> "Other", c |-> 0]
    /\ pc' = "render"
    /\ UNCHANGED <<term, answer, curr, guesses, screen, won_result, raw_mode, alt_screen, printed, result>>

\* Line 68, terminal::disable_raw_mode()? succeeds.
DisableRawOk ==
    /\ pc = "disable_raw"
    /\ raw_mode' = FALSE
    /\ pc' = "leave_alt"
    /\ UNCHANGED <<term, answer, curr, guesses, ev, screen, won_result, alt_screen, printed, result>>

\* Line 68, terminal::disable_raw_mode()? fails.
DisableRawErr ==
    /\ pc = "disable_raw"
    /\ ReturnErr
    /\ UNCHANGED <<term, answer, curr, guesses, ev, screen, won_result, raw_mode, alt_screen, printed>>

\* Line 69, execute!(stdout, LeaveAlternateScreen, Show)? succeeds.
LeaveAltOk ==
    /\ pc = "leave_alt"
    /\ alt_screen' = FALSE
    /\ pc' = "print"
    /\ UNCHANGED <<term, answer, curr, guesses, ev, screen, won_result, raw_mode, printed, result>>

\* Line 69, execute!(stdout, LeaveAlternateScreen, Show)? fails.
LeaveAltErr ==
    /\ pc = "leave_alt"
    /\ ReturnErr
    /\ UNCHANGED <<term, answer, curr, guesses, ev, screen, won_result, raw_mode, alt_screen, printed>>

\* Lines 71-78: the closing message, then Ok(()).
PrintResult ==
    /\ pc = "print"
    /\ printed' = IF won_result = Some(TRUE) THEN "won" ELSE "answer"
    /\ pc' = "done"
    /\ result' = "ok"
    /\ UNCHANGED <<term, answer, curr, guesses, ev, screen, won_result, raw_mode, alt_screen>>

Next ==
    \/ EnableRawOk
    \/ EnableRawErr
    \/ EnterAltOk
    \/ EnterAltErr
    \/ New
    \/ RenderOk
    \/ RenderErr
    \/ WonBreak
    \/ WonNone
    \/ ReadErr
    \/ ReadEsc
    \/ ReadChar
    \/ ReadBackspace
    \/ ReadEnter
    \/ ReadOther
    \/ DisableRawOk
    \/ DisableRawErr
    \/ LeaveAltOk
    \/ LeaveAltErr
    \/ PrintResult

Spec == Init /\ [][Next]_vars

(***************************************************************************)
(* The colouring on its own: render_wordle called on a Wordle whose        *)
(* history is one row, for every guess and answer of EvalGuesses and       *)
(* EvalAnswers.                                                            *)
(***************************************************************************)
EvalGuesses == Words \cup {SPEED, ALLOY}

EvalAnswers == Words \cup {ERASE, LLAMA}

InitEval ==
    /\ answer \in EvalAnswers
    /\ curr = <<>>
    /\ guesses \in {<<g>> : g \in EvalGuesses}
    /\ pc = "render"
    /\ ev = NoEvent
    /\ screen = EmptyScreen
    /\ won_result = None
    /\ raw_mode = TRUE
    /\ alt_screen = TRUE
    /\ printed = "nothing"
    /\ result = "running"
    /\ term = DefaultSize

NextEval ==
    \/ RenderOk
    \/ RenderErr

SpecEval == InitEval /\ [][NextEval]_vars

(***************************************************************************)
(* The geometry on its own: render_wordle called for every terminal size   *)
(* of TermSizes, on histories of every length and buffers of every length. *)
(***************************************************************************)
TermSizes ==
    {0, GridWidth - 1, GridWidth, GridWidth + 1, 80, U16 - 1}
        \X {0, GridHeight - 1, GridHeight, GridHeight + 1, 24, U16 - 1}

\* Histories of 0..6 entries that do not end the game before the last one.
GeomHistories ==
    {[i \in 1..n |-> <<Ascii.a, Ascii.a, Ascii.b, Ascii.b, Ascii.b>>] : n \in 0..MaxGuesses}

\* Buffers of 0..5 letters.
GeomInputs == {SubSeq(<<Ascii.b, Ascii.a, Ascii.b, Ascii.a, Ascii.b>>, 1, n) : n \in 0..WordLen}

InitGeom ==
    /\ answer \in ANSWERS
    /\ guesses \in GeomHistories
    /\ curr \in GeomInputs
    /\ Len(guesses) = MaxGuesses => curr = <<>>
    /\ pc = "render"
    /\ ev = NoEvent
    /\ screen = EmptyScreen
    /\ won_result = None
    /\ raw_mode = TRUE
    /\ alt_screen = TRUE
    /\ printed = "nothing"
    /\ result = "running"
    /\ term \in TermSizes

SpecGeom == InitGeom /\ [][NextEval]_vars

(***************************************************************************)
(* Properties.                                                             *)
(***************************************************************************)
\* Number of occurrences of the letter c in the word s.
Occ(c, s) == Cardinality({i \in 1..Len(s) : s[i] = c})

\* render_wordle has returned and every history row is on the screen.
Rendered == pc = "won" /\ Len(screen.rows) = Len(guesses)

Classification(color) ==
    CASE color = "Green" -> "Correct"
      [] color = "Yellow" -> "Present"
      [] color = "DarkGrey" -> "Absent"

\* The classification of position i of history row r, as drawn.
Class(r, i) == Classification(screen.rows[r].colors[i])

\* C1: in every drawn history row, position i is Correct exactly when the
\* guess and the answer hold the same letter there, and for every letter the
\* number of positions classified Correct or Present that hold it is at most
\* the number of its occurrences in the answer.
C1_CorrectIffEqual_CountCapped ==
    Rendered =>
        \A r \in 1..Len(guesses) :
            /\ \A i \in 1..WordLen :
                  (Class(r, i) = "Correct") <=> (guesses[r][i] = answer[i])
            /\ \A i \in 1..WordLen :
                  Cardinality({k \in 1..WordLen :
                                  /\ guesses[r][k] = guesses[r][i]
                                  /\ Class(r, k) \in {"Correct", "Present"}})
                      <= Occ(guesses[r][i], answer)

\* A drawn row with a Correct letter that occurs again in the guess, where the
\* second occurrence is Absent because the answer holds the letter only once.
C1_Witness ==
    /\ Rendered
    /\ Len(guesses) = 1
    /\ \E i, k \in 1..WordLen :
          /\ i # k
          /\ guesses[1][i] = guesses[1][k]
          /\ Class(1, i) = "Correct"
          /\ Class(1, k) = "Absent"
          /\ Occ(guesses[1][i], answer) = 1

\* Positions of row r whose letter equals the answer's letter at the same place.
ExactPositions(r) == {j \in 1..WordLen : guesses[r][j] = answer[j]}

\* C2: in every drawn history row, a position i that is not an exact match is
\* Present exactly when the number of earlier non-exact positions holding the
\* same letter is less than the occurrences of the letter in the answer minus
\* the exact matches of that letter; otherwise it is Absent.
C2_PresentLeftToRightAfterExact ==
    Rendered =>
        \A r \in 1..Len(guesses) :
            \A i \in (1..WordLen) \ ExactPositions(r) :
                LET c == guesses[r][i]
                    earlier == {j \in 1..(i - 1) : j \notin ExactPositions(r) /\ guesses[r][j] = c}
                    exact == {j \in ExactPositions(r) : guesses[r][j] = c}
                    left == Occ(c, answer) - Cardinality(exact)
                IN  /\ (Class(r, i) = "Present") <=> (Cardinality(earlier) < left)
                    /\ (Class(r, i) = "Absent") <=> ~(Cardinality(earlier) < left)

\* A drawn row where an exact match later in the guess has consumed the only
\* occurrence of a letter, so that an earlier occurrence of it is Absent, and
\* where another letter is Present.
C2_Witness ==
    /\ Rendered
    /\ Len(guesses) = 1
    /\ \E i, k \in 1..WordLen :
          /\ i < k
          /\ guesses[1][i] = guesses[1][k]
          /\ Class(1, i) = "Absent"
          /\ Class(1, k) = "Correct"
    /\ \E i \in 1..WordLen : Class(1, i) = "Present"

\* The row of the guess SPEED against the answer ERASE has been drawn.
SpeedEraseDrawn ==
    /\ Rendered
    /\ guesses = <<SPEED>>
    /\ answer = ERASE

\* C3 as stated: SPEED against ERASE classifies S as Absent, P as Absent and
\* the first E as Present.
C3_AsStated ==
    SpeedEraseDrawn =>
        /\ Class(1, 1) = "Absent"
        /\ Class(1, 2) = "Absent"
        /\ Class(1, 3) = "Present"

\* C3, amended: SPEED against ERASE classifies S as Present (ERASE holds an S
\* at another position), P as Absent and the first E as Present.
C3_SpeedErase ==
    SpeedEraseDrawn =>
        /\ Class(1, 1) = "Present"
        /\ Class(1, 2) = "Absent"
        /\ Class(1, 3) = "Present"

C3_Witness ==
    /\ SpeedEraseDrawn
    /\ screen.rows[1].chars[1] = to_ascii_uppercase(Ascii.s)

\* The step is a guess() call that appends its buffer to the history.
GuessAccepted == ReadEnter /\ Len(guesses') = Len(guesses) + 1

\* C4: in the state reached by a guess() call that appended a guess equal to
\* the answer, won() returns Some(true), whatever the length of the history.
C4_WinDetection ==
    [][(GuessAccepted /\ Last(guesses') = Some(answer)) => (won(W)' = Some(TRUE))]_vars

\* The answer has just been accepted as the 6th guess and the loop has left
\* with the outcome it read from won().
C4_Witness ==
    /\ pc = "disable_raw"
    /\ ev.kind = "None"
    /\ Len(guesses) = MaxGuesses
    /\ guesses[MaxGuesses] = answer
    /\ \A i \in 1..(MaxGuesses - 1) : guesses[i] # answer
    /\ won_result = Some(TRUE)

\* C5: with 6 entries none of which is the answer won() returns Some(false);
\* with fewer than 6 entries the last of which is not the answer, or with no
\* entry, won() returns None.
C5_LossDetection ==
    /\ (Len(guesses) = MaxGuesses /\ \A i \in 1..Len(guesses) : guesses[i] # answer)
          => won(W) = Some(FALSE)
    /\ (Len(guesses) < MaxGuesses /\ (Len(guesses) = 0 \/ guesses[Len(guesses)] # answer))
          => won(W) = None

\* Six guesses, none the answer, and the loop has left with Some(false)
\* without an Esc.
C5_Witness ==
    /\ pc = "disable_raw"
    /\ ev.kind = "None"
    /\ Len(guesses) = MaxGuesses
    /\ \A i \in 1..MaxGuesses : guesses[i] # answer
    /\ won_result = Some(FALSE)

\* C6: a guess() call made with fewer than 5 characters in the buffer, or
\* with 5 characters that are no dictionary word, leaves the buffer, the
\* history and the outcome as they were.
C6_SubmissionRejected ==
    [][(ReadEnter /\ (Len(curr) < WordLen \/ (Len(curr) = WordLen /\ curr \notin GUESSES)))
          => (curr' = curr /\ guesses' = guesses /\ won(W)' = won(W))]_vars

\* Enter has been read with a full buffer that is still there: a 5-letter
\* word outside the dictionary was rejected, after an earlier accepted guess.
C6_Witness ==
    /\ pc = "render"
    /\ ev.kind = "Enter"
    /\ Len(curr) = WordLen
    /\ curr \notin GUESSES
    /\ Len(guesses) > 0

\* C7: a guess() call made with a 5-character dictionary word in the buffer
\* appends that word as the last history entry, keeps the earlier entries in
\* place and empties the buffer.
C7_SubmissionAccepted ==
    [][(ReadEnter /\ Len(curr) = WordLen /\ curr \in GUESSES)
          => /\ Len(guesses') = Len(guesses) + 1
             /\ guesses'[Len(guesses')] = curr
             /\ \A i \in 1..Len(guesses) : guesses'[i] = guesses[i]
             /\ curr' = <<>>]_vars

\* Enter has just added a third entry (the screen still shows two rows and
\* the typed word), after two different earlier entries.
C7_Witness ==
    /\ pc = "render"
    /\ ev.kind = "Enter"
    /\ Len(guesses) = 3
    /\ Len(screen.rows) = 2
    /\ Len(screen.input) = WordLen
    /\ guesses[1] # guesses[2]
    /\ curr = <<>>

\* C8: once won() returns Some(_), no step calls input(), erase() or guess()
\* or reads an event, and the buffer, the history, the answer and the outcome
\* stay as they are.
C8_WonLostTerminal ==
    [][(won(W) # None)
          => /\ ~(ReadChar \/ ReadBackspace \/ ReadEnter \/ ReadEsc \/ ReadOther \/ ReadErr)
             /\ curr' = curr
             /\ guesses' = guesses
             /\ answer' = answer
             /\ won(W)' = won(W)]_vars

\* The game was lost and main has run to its end.
C8_Witness ==
    /\ pc = "done"
    /\ result = "ok"
    /\ won(W) = Some(FALSE)
    /\ printed = "answer"
    /\ ev.kind = "None"

\* C9: the history never holds more than 6 entries.
C9_HistoryAtMostSix == Len(guesses) <= MaxGuesses

\* The history is full and the 6th entry was not the answer.
C9_Witness ==
    /\ Len(guesses) = MaxGuesses
    /\ guesses[MaxGuesses] # answer
    /\ pc = "won"

\* C10: every history entry is 5 letters long and is a dictionary word.
C10_HistoryInDictionary ==
    \A i \in 1..Len(guesses) : Len(guesses[i]) = WordLen /\ guesses[i] \in GUESSES

\* A history with two different entries, reached while a 5-letter word
\* outside the dictionary sits in the buffer after a rejected Enter.
C10_Witness ==
    /\ Len(guesses) >= 2
    /\ guesses[1] # guesses[2]
    /\ ev.kind = "Enter"
    /\ Len(curr) = WordLen
    /\ curr \notin GUESSES

\* C11: the buffer never holds more than 5 characters, and an input() call
\* made with 5 characters in the buffer leaves the buffer and the history as
\* they were.
C11_BufferAtMostFive ==
    [][/\ Len(curr) <= WordLen
       /\ Len(curr') <= WordLen
       /\ (ReadChar /\ Len(curr) = WordLen) => (curr' = curr /\ guesses' = guesses)]_vars

\* A letter has been read while the screen already showed a full buffer, in
\* a game with an earlier guess.
C11_Witness ==
    /\ pc = "render"
    /\ ev.kind = "Char"
    /\ is_ascii_alphabetic(ev.c)
    /\ Len(screen.input) = WordLen
    /\ Len(curr) = WordLen
    /\ Len(guesses) > 0

\* char::is_alphabetic on the characters of Keys: the ASCII letters and the
\* letter outside ASCII.
IsAlphabetic(c) == is_ascii_alphabetic(c) \/ c = Ascii.eacute

\* The step reads a key event that carries the character c.
ReadsChar(c) == pc = "read" /\ ev' = [kind |-> "Char", c |-> c]

\* The buffer holds lowercase ASCII letters only.
LowercaseOnly(s) == \A i \in 1..Len(s) : s[i] >= Ascii.a /\ s[i] <= Ascii.z

\* C12 as stated: a character event appends the lowercased character when
\* the buffer holds fewer than 5 characters and the character is alphabetic,
\* changes nothing when it is not alphabetic, and the buffer holds lowercase
\* letters only.
C12_AsStated ==
    [][/\ \A c \in Keys :
             ReadsChar(c) =>
                 /\ (IsAlphabetic(c) /\ Len(curr) < WordLen)
                       => curr' = Append(curr, to_ascii_lowercase(c))
                 /\ ~IsAlphabetic(c) => curr' = curr
       /\ LowercaseOnly(curr')]_vars

\* C12, amended: a character event appends the lowercased character when the
\* buffer holds fewer than 5 characters and the character is an ASCII letter,
\* changes nothing for every other character (a letter outside ASCII
\* included), and the buffer holds lowercase ASCII letters only.
C12_InputAsciiLetters ==
    [][/\ \A c \in Keys :
             ReadsChar(c) =>
                 /\ (is_ascii_alphabetic(c) /\ Len(curr) < WordLen)
                       => /\ Len(curr') = Len(curr) + 1
                          /\ SubSeq(curr', 1, Len(curr)) = curr
                          /\ curr'[Len(curr')] \in {c, c + (Ascii.a - Ascii.A)}
                 /\ ~is_ascii_alphabetic(c) => curr' = curr
             /\ guesses' = guesses
       /\ LowercaseOnly(curr')]_vars

\* An upper-case letter has been read and sits in the buffer in lower case.
C12_Witness ==
    /\ pc = "render"
    /\ ev.kind = "Char"
    /\ ev.c = Ascii.A
    /\ Len(curr) = Len(screen.input) + 1
    /\ curr[Len(curr)] = Ascii.a

\* C13: erase() on an empty buffer does not panic and leaves the buffer and
\* the history as they were; erase() on a non-empty buffer removes exactly
\* its last character and changes nothing else.
C13_Erase ==
    [][ReadBackspace =>
          /\ (Len(curr) = 0) => curr' = curr
          /\ (Len(curr) > 0) =>
                /\ Len(curr') = Len(curr) - 1
                /\ \A i \in 1..Len(curr') : curr'[i] = curr[i]
          /\ guesses' = guesses
          /\ answer' = answer
          /\ result' = "running"
          /\ pc' = "render"]_vars

\* Backspace has been read with an empty buffer (the screen drawn before it
\* showed no input), in a game with an earlier guess.
C13_Witness ==
    /\ pc = "render"
    /\ ev.kind = "Backspace"
    /\ curr = <<>>
    /\ screen.input = <<>>
    /\ Len(guesses) > 0

\* C14: whenever the process ends after the terminal setup has begun, raw
\* mode is disabled and the alternate screen is left (with the cursor shown).
C14_TerminalRestored ==
    pc = "done" => (~raw_mode /\ ~alt_screen)

\* The positions of main inside the loop.
InLoop(p) == p \in {"render", "won", "read"}

\* C15: reading Esc leaves the loop at once with the result false; from then
\* on no step is inside the loop (so none calls input(), erase() or guess()),
\* the buffer and the history stay as they were when Esc was read, and the
\* run is not reported as won.
C15_QuitEndsLoop ==
    [][((pc = "read" /\ ev'.kind = "Esc") \/ ev.kind = "Esc") =>
          /\ ~InLoop(pc')
          /\ ~(ReadChar \/ ReadBackspace \/ ReadEnter)
          /\ curr' = curr
          /\ guesses' = guesses
          /\ won_result' = Some(FALSE)
          /\ printed' # "won"]_vars

\* Esc was read in the middle of a game, with a guess in the history and
\* letters in the buffer, and main has run to its end.
C15_Witness ==
    /\ pc = "done"
    /\ result = "ok"
    /\ ev.kind = "Esc"
    /\ Len(guesses) > 0
    /\ Len(curr) > 0
    /\ won(W) = None
    /\ printed = "answer"

\* The text s as the screen shows it, in upper case.
Upper(s) == [k \in 1..Len(s) |-> to_ascii_uppercase(s[k])]

\* C16: while the outcome is undecided no history row on the screen is the
\* answer, what render has drawn is the history and the buffer and nothing
\* else, and the answer is printed only when the loop has been left (with
\* the game not won).
C16_AnswerOnlyAfterEnd ==
    /\ (won(W) = None) => \A i \in 1..Len(screen.rows) : screen.rows[i].chars # Upper(answer)
    /\ (pc \in {"won", "read"}) =>
          /\ Len(screen.rows) = Len(guesses)
          /\ \A i \in 1..Len(guesses) : screen.rows[i].chars = Upper(guesses[i])
          /\ screen.input = Upper(curr)
    /\ InLoop(pc) => printed = "nothing"
    /\ (printed = "answer") => (pc = "done" /\ won_result = Some(FALSE))

\* A lost game: six rows were drawn, none the answer, and the answer was
\* printed after the loop.
C16_Witness ==
    /\ pc = "done"
    /\ printed = "answer"
    /\ ev.kind = "None"
    /\ Len(screen.rows) = MaxGuesses
    /\ \A i \in 1..MaxGuesses : screen.rows[i].chars # Upper(answer)

\* C17: for 5-letter guesses and answers the colouring of a row never
\* panics: the first loop finds every matched letter in answer_chars, and
\* both loops end with 5 colours; render_wordle then draws the row.
C17_ColouringNeverPanics ==
    /\ \A r \in 1..Len(guesses) :
          /\ ~FirstPass(RowInit(answer), 1, guesses[r], answer).panicked
          /\ ~RowColors(guesses[r], answer).panicked
          /\ Len(RowColors(guesses[r], answer).colors) = WordLen
    /\ result # "panic"
    /\ Rendered =>
          \A r \in 1..Len(guesses) :
              /\ Len(screen.rows[r].colors) = WordLen
              /\ \A i \in 1..WordLen : screen.rows[r].colors[i] \in {"Green", "Yellow", "DarkGrey"}

\* A drawn row where the first loop has taken the same letter out of
\* answer_chars twice, and the second loop has found a letter and missed one.
C17_Witness ==
    /\ Rendered
    /\ Len(guesses) = 1
    /\ \E i, k \in 1..WordLen :
          /\ i < k
          /\ guesses[1][i] = guesses[1][k]
          /\ Class(1, i) = "Correct"
          /\ Class(1, k) = "Correct"
    /\ \E i \in 1..WordLen : Class(1, i) = "Present"
    /\ \E i \in 1..WordLen : Class(1, i) = "Absent"

\* The screen shows the current history, with its colours, and the buffer.
ScreenIsCurrent ==
    /\ Len(screen.rows) = Len(guesses)
    /\ \A i \in 1..Len(guesses) :
          /\ screen.rows[i].chars = Upper(guesses[i])
          /\ screen.rows[i].colors = RowColors(guesses[i], answer).colors
    /\ screen.input = Upper(curr)

\* C18: the current state has been rendered before every test of won() and
\* every event read; when the loop is left because of the outcome, the screen
\* shows the final guess; and a render changes neither the buffer, the
\* history nor the answer.
C18_RenderBeforeReadAndExit ==
    [][/\ (pc \in {"won", "read"}) => ScreenIsCurrent
       /\ (pc = "won" /\ pc' = "disable_raw") =>
             /\ won(W) # None
             /\ Len(guesses) > 0
             /\ screen.rows[Len(guesses)].chars = Upper(guesses[Len(guesses)])
       /\ (pc = "render") => (curr' = curr /\ guesses' = guesses /\ answer' = answer)]_vars

\* The answer was accepted as the 6th guess, and the loop was left with the
\* sixth row on the screen, all Green.
C18_Witness ==
    /\ pc = "disable_raw"
    /\ ev.kind = "None"
    /\ won_result = Some(TRUE)
    /\ Len(guesses) = MaxGuesses
    /\ Len(screen.rows) = MaxGuesses
    /\ screen.rows[MaxGuesses].chars = Upper(answer)
    /\ \A i \in 1..WordLen : screen.rows[MaxGuesses].colors[i] = "Green"

\* The Wordle after k Backspace events.
RECURSIVE Erased(_, _)
Erased(w, k) == IF k = 0 THEN w ELSE Erased(erase(w), k - 1)

\* The Wordle after one character event for each of the letters s[k..].
RECURSIVE Typed(_, _, _)
Typed(w, s, k) == IF k > Len(s) THEN w ELSE Typed(input(w, s[k]), s, k + 1)

\* The Wordle after 5 Backspace events, the letters of the answer and Enter.
AfterTypingAnswer(w) == guess(Typed(Erased(w, WordLen), w.answer, 1))

\* C19: if the answer is no dictionary word, the outcome is never Won; if it
\* is one, then in every state with the outcome undecided the events
\* "Backspace 5 times, the letters of the answer, Enter" are all accepted by
\* the loop (the letters are ASCII letters, the outcome stays undecided until
\* Enter) and lead to Won.
C19_WinReachableIffAnswerInDictionary ==
    /\ (answer \notin GUESSES) => (won(W) # Some(TRUE) /\ won_result # Some(TRUE))
    /\ (answer \in GUESSES /\ InLoop(pc) /\ won(W) = None) =>
          /\ \A k \in 1..Len(answer) : is_ascii_alphabetic(answer[k])
          /\ won(Typed(Erased(W, WordLen), answer, 1)) = None
          /\ Typed(Erased(W, WordLen), answer, 1).curr = answer
          /\ won(AfterTypingAnswer(W)) = Some(TRUE)

\* The answer is a dictionary word, five other guesses are in the history
\* and the buffer is full of another word, with the outcome undecided.
C19_Witness ==
    /\ answer \in GUESSES
    /\ pc = "read"
    /\ won(W) = None
    /\ Len(guesses) = MaxGuesses - 1
    /\ Len(curr) = WordLen
    /\ curr # answer

\* C20: for every terminal size the origin ((cols - 21) / 2, (rows - 13) / 2)
\* is computed without underflow (no panic, and the origin drawn at is the
\* arithmetic value), and every cursor position derived from it is a u16.
C20_GeometryInRange ==
    /\ result # "panic"
    /\ Rendered =>
          /\ 2 * screen.origin[1] <= term[1] - GridWidth
          /\ term[1] - GridWidth <= 2 * screen.origin[1] + 1
          /\ 2 * screen.origin[2] <= term[2] - GridHeight
          /\ term[2] - GridHeight <= 2 * screen.origin[2] + 1
          /\ \A p \in Cursors(screen.origin[1], screen.origin[2], W) :
                p[1] < U16 /\ p[2] < U16

====
